---- MODULE Spec2Model ----
(***************************************************************************)
(* A model of Alc/hrtf.c (OpenAL Soft): the MinPHR00 / MinPHR01 data set   *)
(* decoders, the registry of loaded data sets (LoadedHrtfs), the catalog   *)
(* built by EnumerateHrtf, and the HRIR interpolation.                     *)
(*                                                                         *)
(* C arrays are functions on 0..n-1 and byte buffers are sequences read    *)
(* through Byte, so that offsets are the ones of the C code.               *)
(***************************************************************************)
EXTENDS Integers, Sequences, FiniteSets, TLC

VARIABLES
    LoadedHrtfs,    \* head of the registry list: a data set address, or NullPtr
    heap,           \* the data sets allocated so far; heap[p] is the one at address p
    frees,          \* frees[p]: how many times al_free was called on address p
    list,           \* the catalog vector that EnumerateHrtf builds and returns
    pc,             \* where EnumerateHrtf stands; "idle" when it is not running
    last,           \* what the last registry operation did
    inp,            \* harness: the input drawn for the decoder or the interpolation
    dec,            \* harness: what the decoder returned, or the interpolation wrote
    thr,            \* thr[t]: where thread t stands in its load, and its locals
    sync            \* the holder of the mutex, and the addresses stored into LoadedHrtfs

vars == <<LoadedHrtfs, heap, frees, list, pc, last, inp, dec, thr, sync>>

----------------------------------------------------------------------------
(* Program constants. *)

MIN_IR_SIZE == 8
MAX_IR_SIZE == 128
MOD_IR_SIZE == 8
MIN_EV_COUNT == 5
MAX_EV_COUNT == 128
MIN_AZ_COUNT == 1
MAX_AZ_COUNT == 128

\* The library's history length (hrtf.h); the decoders only use it through
\* maxDelay = HRTF_HISTORY_LENGTH-1.
HRTF_HISTORY_LENGTH == 64

\* "MinPHR00" and "MinPHR01" as bytes.
magicMarker00 == <<77, 105, 110, 80, 72, 82, 48, 48>>
magicMarker01 == <<77, 105, 110, 80, 72, 82, 48, 49>>

\* A decoder's "return NULL".
NULL == [null |-> TRUE]

\* The null address of a struct Hrtf; data sets live at addresses 1, 2, ...
NullPtr == 0

----------------------------------------------------------------------------
(* Integer widths. *)

UShort(n) == n % 65536
UByte(n) == n % 256
\* The value of an ALshort holding the low 16 bits of n.
Short(n) == IF n % 65536 >= 32768 THEN (n % 65536) - 65536 ELSE n % 65536

\* s[lo] + ... + s[hi], summed by halves.
RECURSIVE RangeSum(_, _, _)
RangeSum(s, lo, hi) ==
    IF lo > hi THEN 0
    ELSE IF lo = hi THEN s[lo]
    ELSE RangeSum(s, lo, (lo + hi) \div 2) + RangeSum(s, (lo + hi) \div 2 + 1, hi)

\* *(data + off); a read past the end of the buffer yields an arbitrary byte.
Byte(data, off) == IF off + 1 \in DOMAIN data THEN data[off + 1] ELSE 0

\* The bytes after the 8-byte marker, as the decoders receive them.
Payload(bytes) == SubSeq(bytes, 9, Len(bytes))

----------------------------------------------------------------------------
(* The decoders.  A decoder returns the data set (or NULL) together with   *)
(* `reads', the number of leading bytes of `data' it has read, i.e. one    *)
(* more than the highest offset it has dereferenced.  `mem' names the      *)
(* allocation that fails (1: the temporary tables, 2: coeffs, 3: the       *)
(* struct Hrtf), 0 when every allocation succeeds.                         *)

Decoded(hrtf, reads) == [hrtf |-> hrtf, reads |-> reads]

\* The block "if(!failed) { Hrtf->sampleRate = rate; ... memcpy ... }".
MakeHrtf(rate, irSize, evCount, azCount, evOffset, coeffs, delays, filename) ==
    [sampleRate |-> rate, irSize |-> irSize, evCount |-> evCount,
     azCount |-> azCount, evOffset |-> evOffset, coeffs |-> coeffs,
     delays |-> delays, filename |-> filename, next |-> NullPtr]

\* The number of directions of a data set: the size of its delays table.
IrCount(h) == Len(h.delays)

\* A variant of BadIrSize that forgets the multiple-of-8 test.
BadIrSize_NoModulo(irSize) == irSize < MIN_IR_SIZE \/ irSize > MAX_IR_SIZE

\* The test of irSize shared by both decoders.
BadIrSize(irSize) ==
    irSize < MIN_IR_SIZE \/ irSize > MAX_IR_SIZE \/ (irSize % MOD_IR_SIZE) # 0

BadEvCount(evCount) == evCount < MIN_EV_COUNT \/ evCount > MAX_EV_COUNT

\* A variant of BadAzCount that forgets the upper limit.
BadAzCount_NoUpper(az) == az < MIN_AZ_COUNT

BadAzCount(az) == az < MIN_AZ_COUNT \/ az > MAX_AZ_COUNT

\* "if(datalen < 9)" and "if(datalen < 6)": the fixed header is not all there.
HeaderShort00(datalen) == datalen < 9

HeaderShort01(datalen) == datalen < 6

\* "if(datalen < evCount*2)" and "if(datalen < evCount)", datalen being what
\* is left after the header.
TableShort00(datalen, evCount) == datalen < evCount * 2

TableShort01(datalen, evCount) == datalen < evCount

\* A variant of BodyShort that forgets the delay table.
BodyShort_NoDelays(datalen, irSize, irCount) == datalen < 2 * irSize * irCount

\* "size_t reqsize = 2*irSize*irCount + irCount; if(datalen < reqsize)".  With
\* irSize <= 128 and irCount < 65536 the 32-bit product cannot wrap.
BodyShort(datalen, irSize, irCount) ==
    datalen < 2 * irSize * irCount + irCount

\* A variant of BadDelay with maxDelay one too large.
BadDelay_OffByOne(d) == d > UByte(HRTF_HISTORY_LENGTH)

\* "if(delays[i] > maxDelay)", maxDelay being an ALubyte.
BadDelay(d) == d > UByte(HRTF_HISTORY_LENGTH - 1)

\* "azCount[i-1] = evOffset[i] - evOffset[i-1]" and "azCount[i-1] = irCount -
\* evOffset[i-1]": the difference as stored in the ALubyte azCount[].
StoredAzCount(diff) == UByte(diff)

\* The coefficient and delay tables, read from offset `at' of data.
ReadCoeffs(data, at, irSize, irCount) ==
    [k \in 1..(irSize * irCount) |->
        Short(Byte(data, at + 2 * (k - 1)) + Byte(data, at + 2 * (k - 1) + 1) * 256)]

ReadDelays(data, at, irCount) == [k \in 1..irCount |-> Byte(data, at + (k - 1))]

LoadHrtf00(data, datalen, filename, mem) ==
    IF HeaderShort00(datalen) THEN Decoded(NULL, 0)
    ELSE
    LET rate == Byte(data, 0) + Byte(data, 1) * 256
                + Byte(data, 2) * 65536 + Byte(data, 3) * 16777216
        irCount == Byte(data, 4) + Byte(data, 5) * 256
        irSize == UShort(Byte(data, 6) + Byte(data, 7) * 256)
        evCount == Byte(data, 8)
    IN
    IF BadIrSize(irSize) \/ BadEvCount(evCount) THEN Decoded(NULL, 9)
    ELSE IF TableShort00(datalen - 9, evCount) THEN Decoded(NULL, 9)
    ELSE IF mem = 1 THEN Decoded(NULL, 9)
    ELSE
    LET evOffset == [i \in 0..(evCount - 1) |->
                        UShort(Byte(data, 9 + 2 * i) + Byte(data, 9 + 2 * i + 1) * 256)]
        azCount == [i \in 0..(evCount - 1) |->
                        IF i < evCount - 1
                        THEN StoredAzCount(evOffset[i + 1] - evOffset[i])
                        ELSE StoredAzCount(irCount - evOffset[evCount - 1])]
        failedTables ==
            \/ \E i \in 1..(evCount - 1) : evOffset[i] <= evOffset[i - 1]
            \/ \E i \in 0..(evCount - 1) : BadAzCount(azCount[i])
            \/ irCount <= evOffset[evCount - 1]
        at == 9 + 2 * evCount
    IN
    IF failedTables \/ mem = 2 THEN Decoded(NULL, at)
    ELSE IF BodyShort(datalen - at, irSize, irCount) THEN Decoded(NULL, at)
    ELSE
    LET coeffs == ReadCoeffs(data, at, irSize, irCount)
        delays == ReadDelays(data, at + 2 * irSize * irCount, irCount)
        failedDelays == \E k \in 1..irCount : BadDelay(delays[k])
        reads == at + 2 * irSize * irCount + irCount
    IN
    IF failedDelays \/ mem = 3 THEN Decoded(NULL, reads)
    ELSE Decoded(MakeHrtf(rate, irSize, evCount, azCount, evOffset,
                          coeffs, delays, filename), reads)

LoadHrtf01(data, datalen, filename, mem) ==
    IF HeaderShort01(datalen) THEN Decoded(NULL, 0)
    ELSE
    LET rate == Byte(data, 0) + Byte(data, 1) * 256
                + Byte(data, 2) * 65536 + Byte(data, 3) * 16777216
        irSize == Byte(data, 4)
        evCount == Byte(data, 5)
    IN
    IF BadIrSize(irSize) \/ BadEvCount(evCount) THEN Decoded(NULL, 6)
    ELSE IF TableShort01(datalen - 6, evCount) THEN Decoded(NULL, 6)
    ELSE IF mem = 1 THEN Decoded(NULL, 6)
    ELSE
    LET azCount == [i \in 0..(evCount - 1) |-> Byte(data, 6 + i)]
        at == 6 + evCount
    IN
    IF \E i \in 0..(evCount - 1) : BadAzCount(azCount[i]) THEN Decoded(NULL, at)
    ELSE
    \* evOffset[0] = 0; evOffset[i] = evOffset[i-1] + azCount[i-1];
    \* irCount = azCount[0] + ... + azCount[evCount-1].
    LET evOffset == [i \in 0..(evCount - 1) |-> UShort(RangeSum(azCount, 0, i - 1))]
        irCount == RangeSum(azCount, 0, evCount - 1)
    IN
    IF mem = 2 THEN Decoded(NULL, at)
    ELSE IF BodyShort(datalen - at, irSize, irCount) THEN Decoded(NULL, at)
    ELSE
    LET coeffs == ReadCoeffs(data, at, irSize, irCount)
        delays == ReadDelays(data, at + 2 * irSize * irCount, irCount)
        failedDelays == \E k \in 1..irCount : BadDelay(delays[k])
        reads == at + 2 * irSize * irCount + irCount
    IN
    IF failedDelays \/ mem = 3 THEN Decoded(NULL, reads)
    ELSE Decoded(MakeHrtf(rate, irSize, evCount, azCount, evOffset,
                          coeffs, delays, filename), reads)

----------------------------------------------------------------------------
(* Input buffers.  A file is written field by field in the layout of the   *)
(* format; the decoders are then run on its bytes.                         *)

U16LE(n) == <<n % 256, (n \div 256) % 256>>
U32LE(n) == <<n % 256, (n \div 256) % 256, (n \div 65536) % 256, (n \div 16777216) % 256>>

\* The k-th stored coefficient (k from 0) of the generated files: a 16-bit
\* pattern that takes both signs.
CoeffPattern(k) == (k * 2749 + 17) % 65536

\* The delay of direction k (from 0) of the generated files, within 0..63.
DelayPattern(k) == (k * 5) % 64

CoeffBytes(n) ==
    [b \in 1..(2 * n) |->
        IF (b - 1) % 2 = 0 THEN CoeffPattern((b - 1) \div 2) % 256
        ELSE CoeffPattern((b - 1) \div 2) \div 256]

\* bad is <<>> or <<k, d>>: direction k (from 0) gets the delay byte d.
DelayBytes(n, bad) ==
    [k \in 1..n |-> IF bad # <<>> /\ bad[1] = k - 1 THEN bad[2] ELSE DelayPattern(k - 1)]

SeqSum(s) == RangeSum(s, 1, Len(s))

Flatten16(s) ==
    [b \in 1..(2 * Len(s)) |->
        IF (b - 1) % 2 = 0 THEN s[(b + 1) \div 2] % 256 ELSE (s[b \div 2] \div 256) % 256]

Ones(n) == [i \in 1..n |-> 1]

\* A MinPHR01 file: sampleRate, irSize, evCount, azCount[], coeffs, delays.
V1File(irSize, az, bad) ==
    magicMarker01 \o U32LE(44100) \o <<irSize, Len(az)>> \o az
        \o CoeffBytes(irSize * SeqSum(az)) \o DelayBytes(SeqSum(az), bad)

\* A MinPHR00 file: sampleRate, irCount, irSize, evCount, evOffset[], coeffs,
\* delays.
V0File(irCount, irSize, offs, bad) ==
    magicMarker00 \o U32LE(48000) \o U16LE(irCount) \o U16LE(irSize) \o <<Len(offs)>>
        \o Flatten16(offs) \o CoeffBytes(irSize * irCount) \o DelayBytes(irCount, bad)

\* The offsets 0, 1, 2, ... of n rings of one azimuth each.
Steps(n) == [i \in 1..n |-> i - 1]

\* The smallest well-formed files of each format, and the example of the
\* format description (azCount = 4, 8, 8, 8, 4).
V1Min == V1File(8, Ones(5), <<>>)
V0Min == V0File(5, 8, Steps(5), <<>>)
V1Example == V1File(8, <<4, 8, 8, 8, 4>>, <<>>)
V0Example == V0File(32, 8, <<0, 4, 12, 20, 28>>, <<>>)

\* Every prefix of a file, the empty one and the file itself included.
Prefixes(bytes) == {SubSeq(bytes, 1, n) : n \in 0..Len(bytes)}

V1Inputs ==
    {V1File(sz, Ones(5), <<>>) : sz \in {0, 7, 8, 9, 16, 24, 120, 128, 129, 136, 255}}
    \cup {V1File(8, Ones(n), <<>>) : n \in {0, 4, 5, 6, 127, 128, 129, 255}}
    \cup {V1File(7, Ones(4), <<>>), V1Example, V1Example \o <<1, 2, 3>>}
    \cup {V1File(8, <<1, 1, a, 1, 1>>, <<>>) : a \in {0, 2, 128, 129, 255}}
    \cup {V1File(8, <<a, 1, 1, 1, 1>>, <<>>) : a \in {0, 129}}
    \cup {V1File(8, <<1, 1, 1, 1, a>>, <<>>) : a \in {0, 128, 129}}
    \cup {V1File(8, <<1, 2, 3, 2, 1>>, <<k, d>>) : k \in {0, 4, 8}, d \in {62, 63, 64, 65, 255}}
    \cup Prefixes(V1Min)

V0Inputs ==
    {V0File(5, sz, Steps(5), <<>>) :
        sz \in {0, 7, 8, 9, 16, 24, 120, 128, 129, 136, 255, 256, 264, 384}}
    \cup {V0File(n, 8, Steps(n), <<>>) : n \in {0, 4, 5, 6, 127, 128, 129, 255}}
    \cup {V0File(4, 7, Steps(4), <<>>), V0Example, V0Example \o <<1, 2, 3>>}
    \cup {V0File(o[5] + az4, 8, o, <<>>) :
            o \in {<<0, 1, 2, 3, 4>>, <<0, 4, 12, 20, 28>>, <<0, 128, 256, 384, 512>>,
                   <<0, 129, 130, 131, 132>>, <<0, 1, 2, 3, 132>>,
                   <<0, 2, 2, 3, 4>>, <<0, 3, 2, 4, 5>>, <<0, 1, 2, 3, 3>>,
                   <<0, 257, 258, 259, 260>>, <<0, 256, 257, 258, 259>>,
                   <<0, 1, 2, 259, 260>>, <<0, 1, 2, 3, 387>>,
                   <<1, 2, 3, 4, 5>>, <<3, 7, 15, 23, 31>>, <<200, 201, 202, 203, 204>>},
            az4 \in {1, 4, 128}}
    \cup {V0File(n, 8, Steps(5), <<>>) : n \in {0, 3, 4, 132, 133, 260, 261}}
    \cup {V0File(9, 8, <<0, 1, 3, 6, 8>>, <<k, d>>) : k \in {0, 4, 8}, d \in {62, 63, 64, 65, 255}}
    \cup Prefixes(V0Min)

----------------------------------------------------------------------------
(* The decoder harness: a buffer is drawn, then the decoder of its format  *)
(* is applied to the payload (the bytes after the marker).                 *)

Pending == [pending |-> TRUE]

DecodeInputs ==
    {[ver |-> 0, data |-> Payload(bytes), mem |-> mem] : bytes \in V0Inputs, mem \in 0..3}
    \cup {[ver |-> 1, data |-> Payload(bytes), mem |-> mem] : bytes \in V1Inputs, mem \in 0..3}

\* What `last' records of an operation: the operation, and for a load its
\* file name and buffer, the decoder run with its arguments, how the load
\* ended and the data set of the entry pushed (NullPtr when none is pushed).
Record(op) ==
    [op |-> op, filename |-> <<>>, bytes |-> <<>>, decoder |-> "none",
     data |-> <<>>, datalen |-> 0, outcome |-> "", hrtf |-> NullPtr]

RegistryInit ==
    /\ LoadedHrtfs = NullPtr
    /\ heap = <<>>
    /\ frees = <<>>
    /\ list = <<>>
    /\ pc = "idle"
    /\ last = Record("init")
    /\ thr = <<>>
    /\ sync = [mutex |-> 0, linked |-> {}]

InitDecode == RegistryInit /\ inp \in DecodeInputs /\ dec = Pending

Decode00 ==
    /\ dec = Pending
    /\ inp.ver = 0
    /\ dec' = LoadHrtf00(inp.data, Len(inp.data), <<>>, inp.mem)
    /\ UNCHANGED <<LoadedHrtfs, heap, frees, list, pc, last, inp>>
    /\ UNCHANGED <<thr, sync>>

Decode01 ==
    /\ dec = Pending
    /\ inp.ver = 1
    /\ dec' = LoadHrtf01(inp.data, Len(inp.data), <<>>, inp.mem)
    /\ UNCHANGED <<LoadedHrtfs, heap, frees, list, pc, last, inp>>
    /\ UNCHANGED <<thr, sync>>

NextDecode == Decode00 \/ Decode01

SpecDecode == InitDecode /\ [][NextDecode]_vars

----------------------------------------------------------------------------
(* The registry (LoadedHrtfs) and the catalog (the vector of HrtfEntry).   *)
(* A file name or an entry name is the sequence of its characters.         *)

Live(p) == p \in DOMAIN heap /\ frees[p] = 0

RECURSIVE ChainFrom(_)
\* The addresses reached from p through the next links, in order.
ChainFrom(p) == IF p = NullPtr THEN <<>> ELSE <<p>> \o ChainFrom(heap[p].next)

\* A variant of FindLoaded whose scan starts at the second data set.
FindLoaded_SkipsHead(filename) ==
    LET c == ChainFrom(LoadedHrtfs)
        hits == {i \in 2..Len(c) : heap[c[i]].filename = filename}
    IN  IF hits = {} THEN NullPtr ELSE c[CHOOSE i \in hits : \A j \in hits : i <= j]

\* "entry.hrtf = LoadedHrtfs; while(entry.hrtf) { if(cmp == 0) goto skip_load;
\* entry.hrtf = entry.hrtf->next; }": the first data set of the registry list
\* with this file name, or NullPtr.
FindLoaded(filename) ==
    LET c == ChainFrom(LoadedHrtfs)
        hits == {i \in 1..Len(c) : heap[c[i]].filename = filename}
    IN  IF hits = {} THEN NullPtr ELSE c[CHOOSE i \in hits : \A j \in hits : i <= j]

\* VECTOR_FIND_IF(iter, ..., MATCH_FNAME) finds an entry of the catalog.
InCatalog(filename) == \E i \in 1..Len(list) : heap[list[i].hrtf].filename = filename

\* Whether scanning the addresses ps in order for a data set named filename,
\* stopping at the first match, reads a data set that has been released.
ScanReadsFreed(ps, filename) ==
    \E i \in 1..Len(ps) :
        /\ ~Live(ps[i])
        /\ \A j \in 1..(i - 1) : heap[ps[j]].filename # filename

\* Whether the two scans that open a load, of the catalog and then (when the
\* catalog has no match) of the registry list, read released memory.
ReadsFreed(filename) ==
    LET entries == [i \in 1..Len(list) |-> list[i].hrtf]
    IN  \/ ScanReadsFreed(entries, filename)
        \/ ~InCatalog(filename) /\ ScanReadsFreed(ChainFrom(LoadedHrtfs), filename)

\* What the format selection hands on: the decoder run ("none" when there
\* is none), its arguments and its result.
Dispatched(decoder, data, datalen, d) ==
    [decoder |-> decoder, data |-> data, datalen |-> datalen,
     hrtf |-> d.hrtf, reads |-> d.reads]

NotDispatched == Dispatched("none", <<>>, 0, Decoded(NULL, 0))

\* A variant of DispatchFile that runs the v0 decoder on both markers.
DispatchFile_AlwaysV0(bytes, filename, mem) ==
    IF Len(bytes) < Len(magicMarker01) THEN NotDispatched
    ELSE IF SubSeq(bytes, 1, Len(magicMarker01)) \in {magicMarker00, magicMarker01}
    THEN Dispatched("v0", Payload(bytes), Len(bytes) - Len(magicMarker00),
                    LoadHrtf00(Payload(bytes), Len(bytes) - Len(magicMarker00),
                               filename, mem))
    ELSE NotDispatched

\* AddFileEntry: "if(fmap.len < sizeof(magicMarker01)) ... else if(memcmp(...)
\* == 0) hrtf = LoadHrtf01(...) else if(...) hrtf = LoadHrtf00(...) else ERR".
DispatchFile(bytes, filename, mem) ==
    IF Len(bytes) < Len(magicMarker01) THEN NotDispatched
    ELSE IF SubSeq(bytes, 1, Len(magicMarker01)) = magicMarker01
    THEN Dispatched("v1", Payload(bytes), Len(bytes) - Len(magicMarker01),
                    LoadHrtf01(Payload(bytes), Len(bytes) - Len(magicMarker01),
                               filename, mem))
    ELSE IF SubSeq(bytes, 1, Len(magicMarker00)) = magicMarker00
    THEN Dispatched("v0", Payload(bytes), Len(bytes) - Len(magicMarker00),
                    LoadHrtf00(Payload(bytes), Len(bytes) - Len(magicMarker00),
                               filename, mem))
    ELSE NotDispatched

\* AddBuiltInEntry: "if(datalen < sizeof(magicMarker01)) goto done;
\* if(memcmp(...) == 0) ... else if(...) ... else ERR".
DispatchBuiltIn(data, datalen, filename, mem) ==
    IF datalen < Len(magicMarker01) THEN NotDispatched
    ELSE IF SubSeq(data, 1, Len(magicMarker01)) = magicMarker01
    THEN Dispatched("v1", Payload(data), datalen - Len(magicMarker01),
                    LoadHrtf01(Payload(data), datalen - Len(magicMarker01),
                               filename, mem))
    ELSE IF SubSeq(data, 1, Len(magicMarker00)) = magicMarker00
    THEN Dispatched("v0", Payload(data), datalen - Len(magicMarker00),
                    LoadHrtf00(Payload(data), datalen - Len(magicMarker00),
                               filename, mem))
    ELSE NotDispatched

\* strrchr(s, ch): the last position of ch in s, 0 when there is none.
LastIndexOf(s, ch) ==
    LET at == {i \in 1..Len(s) : s[i] = ch}
    IN  IF at = {} THEN 0 ELSE CHOOSE i \in at : \A j \in at : j <= i

\* AddFileEntry: the file name after its last '/' (else its last '\'), cut
\* at the last '.' of what remains.
BaseName(filename) ==
    LET slash == IF LastIndexOf(filename, "/") # 0 THEN LastIndexOf(filename, "/")
                 ELSE LastIndexOf(filename, "\\")
        name == SubSeq(filename, slash + 1, Len(filename))
        ext == LastIndexOf(name, ".")
    IN  IF ext = 0 THEN name ELSE SubSeq(name, 1, ext - 1)

Digit == <<"0", "1", "2", "3", "4", "5", "6", "7", "8", "9">>

RECURSIVE Decimal(_)
\* snprintf "%d" of a number >= 0.
Decimal(n) == IF n < 10 THEN <<Digit[n + 1]>> ELSE Decimal(n \div 10) \o <<Digit[(n % 10) + 1]>>

\* The name tried in round i of the naming loop: the base, with " #<i+1>"
\* appended from the second round on.
NameTry(base, i) == IF i = 0 THEN base ELSE base \o <<" ", "#">> \o Decimal(i + 1)

\* A variant of UniqueName that never appends a suffix.
UniqueName_NoSuffix(base) == base

\* "do { ...; ++i; VECTOR_FIND_IF(iter, ..., MATCH_NAME); } while(iter !=
\* VECTOR_END(*list))": the first name tried that no entry of the catalog has.
UniqueName(base) ==
    LET taken == {list[k].name : k \in 1..Len(list)}
        i == CHOOSE i \in 0..Len(list) :
                /\ NameTry(base, i) \notin taken
                /\ \A j \in 0..(i - 1) : NameTry(base, j) \in taken
    IN  NameTry(base, i)

\* What `last' records of a load: the operation and its inputs, the decoder
\* run with its arguments, how the load ended and the data set of the entry
\* pushed (NullPtr when none is pushed).
LoadRecord(op, filename, bytes, d, outcome, p) ==
    [op |-> op, filename |-> filename, bytes |-> bytes, decoder |-> d.decoder,
     data |-> d.data, datalen |-> d.datalen, outcome |-> outcome, hrtf |-> p]

\* "hrtf->next = LoadedHrtfs; LoadedHrtfs = hrtf;" for the data set h, which
\* al_calloc has placed at the next free address.
Prepend(h) ==
    /\ heap' = Append(heap, [h EXCEPT !.next = LoadedHrtfs])
    /\ frees' = Append(frees, 0)
    /\ LoadedHrtfs' = Len(heap) + 1

\* VECTOR_PUSH_BACK(*list, entry).
PushEntry(name, p) == list' = Append(list, [name |-> name, hrtf |-> p])
----------------------------------------------------------------------------
(* Inputs of the registry operations.                                      *)

\* The number of data sets allocated in one run of the model.
MaxAllocs == 2

FileAX == <<"a", "/", "x", ".", "m", "h", "r">>
FileBX == <<"b", "/", "x", ".", "m", "h", "r">>
BuiltIn44100 == <<"B", "u", "i", "l", "t", "-", "I", "n", " ", "4", "4", "1", "0", "0", "h", "z">>
BuiltIn48000 == <<"B", "u", "i", "l", "t", "-", "I", "n", " ", "4", "8", "0", "0", "0", "h", "z">>

FileNames == {FileAX, FileBX}

\* MapFileToMem returned no mapping.
NoFile == <<"no file">>

\* The marker of a later format in front of a well-formed v1 payload.
OtherMarker == <<77, 105, 110, 80, 72, 82, 48, 50>> \o Payload(V1Min)

\* Files that a decoder must refuse: irSize not a multiple of 8, four rings
\* only, a ring of 129 azimuths, a delay of 64, offsets that do not
\* increase, irCount equal to the last offset, and a file cut in its tables.
DefectiveBuffers ==
    {V1File(12, Ones(5), <<>>), V1File(8, Ones(4), <<>>),
     V1File(8, <<1, 1, 129, 1, 1>>, <<>>), V1File(8, Ones(5), <<4, 64>>),
     V0File(5, 8, <<0, 1, 1, 2, 3>>, <<>>), V0File(4, 8, Steps(5), <<>>),
     SubSeq(V1Min, 1, Len(V1Min) - 1)}

\* Files with another marker, cut inside the marker, or of the marker alone.
BadHeaderBuffers == {OtherMarker, SubSeq(V1Min, 1, 7), SubSeq(V0Min, 1, 8)}

\* Well-formed files of both formats, a file with another marker, one that
\* stops inside the marker, one that is the marker alone and one that lacks
\* its last byte.
RegistryBuffers ==
    {V1Min, V0Min, OtherMarker,
     SubSeq(V1Min, 1, 7), SubSeq(V0Min, 1, 8), SubSeq(V1Min, 1, Len(V1Min) - 1)}

\* What the loads of a run may find: the file names and the contents.
Found(names, buffers) == [names |-> names, buffers |-> buffers]

----------------------------------------------------------------------------
(* The registry operations.  EnumerateHrtf runs from its start to its      *)
(* return without another registry operation in between.                   *)

\* A read of released memory: what follows is undefined and is not modelled.
Undefined(op) ==
    /\ pc' = "undefined"
    /\ last' = [Record(op) EXCEPT !.outcome = "use after free"]
    /\ UNCHANGED <<LoadedHrtfs, heap, frees, list>>

\* EnumerateHrtf up to its first load: "vector_HrtfEntry list =
\* VECTOR_INIT_STATIC()".
EnumerateHrtf ==
    /\ pc = "idle"
    /\ pc' = "files"
    /\ list' = <<>>
    /\ last' = Record("EnumerateHrtf")
    /\ UNCHANGED <<LoadedHrtfs, heap, frees, inp, dec>>
    /\ UNCHANGED <<thr, sync>>

\* The allocation outcomes tried by the loads: none fails, or the al_calloc
\* of the struct Hrtf does.
LoadAllocs == {0, 3}

AddFileEntry ==
    /\ pc = "files"
    /\ \E filename \in inp.names :
        LET op == "AddFileEntry" IN
        IF ReadsFreed(filename) THEN Undefined(op)
        ELSE IF InCatalog(filename)
        THEN /\ last' = LoadRecord(op, filename, <<>>, NotDispatched, "duplicate", NullPtr)
             /\ UNCHANGED <<LoadedHrtfs, heap, frees, list, pc>>
        ELSE IF FindLoaded(filename) # NullPtr
        THEN /\ PushEntry(UniqueName(BaseName(filename)), FindLoaded(filename))
             /\ last' = LoadRecord(op, filename, <<>>, NotDispatched, "reused",
                                   FindLoaded(filename))
             /\ UNCHANGED <<LoadedHrtfs, heap, frees, pc>>
        ELSE \E fmap \in inp.buffers \cup {<<>>, NoFile}, mem \in LoadAllocs :
            LET d == DispatchFile(fmap, filename, mem) IN
            IF fmap = NoFile
            THEN /\ last' = LoadRecord(op, filename, <<>>, NotDispatched, "no file", NullPtr)
                 /\ UNCHANGED <<LoadedHrtfs, heap, frees, list, pc>>
            ELSE IF d.hrtf = NULL
            THEN /\ last' = LoadRecord(op, filename, fmap, d, "failed", NullPtr)
                 /\ UNCHANGED <<LoadedHrtfs, heap, frees, list, pc>>
            ELSE /\ Len(heap) < MaxAllocs
                 /\ Prepend(d.hrtf)
                 /\ PushEntry(UniqueName(BaseName(filename)), Len(heap) + 1)
                 /\ last' = LoadRecord(op, filename, fmap, d, "loaded", Len(heap) + 1)
                 /\ UNCHANGED pc
    /\ UNCHANGED <<inp, dec>>
    /\ UNCHANGED <<thr, sync>>

\* AddBuiltInEntry as EnumerateHrtf calls it: for the 44100 Hz resource, then
\* for the 48000 Hz one, each only when GetResource returned a non-empty
\* buffer.
AddBuiltInEntry ==
    /\ pc \in {"files", "res48"}
    /\ \E filename \in IF pc = "files" THEN {BuiltIn44100, BuiltIn48000} ELSE {BuiltIn48000} :
        LET op == "AddBuiltInEntry"
            after == IF filename = BuiltIn44100 THEN "res48" ELSE "tail"
        IN
        IF ReadsFreed(filename) THEN Undefined(op)
        ELSE IF InCatalog(filename)
        THEN /\ last' = LoadRecord(op, filename, <<>>, NotDispatched, "duplicate", NullPtr)
             /\ pc' = after
             /\ UNCHANGED <<LoadedHrtfs, heap, frees, list>>
        ELSE IF FindLoaded(filename) # NullPtr
        THEN /\ PushEntry(UniqueName(filename), FindLoaded(filename))
             /\ last' = LoadRecord(op, filename, <<>>, NotDispatched, "reused",
                                   FindLoaded(filename))
             /\ pc' = after
             /\ UNCHANGED <<LoadedHrtfs, heap, frees>>
        ELSE \E data \in inp.buffers, mem \in LoadAllocs :
            LET d == DispatchBuiltIn(data, Len(data), filename, mem) IN
            IF d.hrtf = NULL
            THEN /\ last' = LoadRecord(op, filename, data, d, "failed", NullPtr)
                 /\ pc' = after
                 /\ UNCHANGED <<LoadedHrtfs, heap, frees, list>>
            ELSE /\ Len(heap) < MaxAllocs
                 /\ Prepend(d.hrtf)
                 /\ PushEntry(UniqueName(filename), Len(heap) + 1)
                 /\ last' = LoadRecord(op, filename, data, d, "loaded", Len(heap) + 1)
                 /\ pc' = after
    /\ UNCHANGED <<inp, dec>>
    /\ UNCHANGED <<thr, sync>>

\* "Find the preferred HRTF and move it to the front of the list": the
\* catalog with the entry at position k moved to the front.
MoveToFront(k) ==
    [i \in 1..Len(list) |-> IF i = 1 THEN list[k] ELSE IF i <= k THEN list[i - 1] ELSE list[i]]

\* The end of EnumerateHrtf: with a default-hrtf option and more than one
\* entry, the entry of that name moves to the front; the list is returned.
EnumerateReturn ==
    /\ pc \in {"files", "res48", "tail"}
    /\ pc' = "idle"
    /\ \E k \in 0..Len(list) :
        /\ k # 0 => \A j \in 1..(k - 1) : list[j].name # list[k].name
        /\ list' = IF Len(list) > 1 /\ k > 1 THEN MoveToFront(k) ELSE list
    /\ last' = Record("return")
    /\ UNCHANGED <<LoadedHrtfs, heap, frees, inp, dec>>
    /\ UNCHANGED <<thr, sync>>

\* FreeHrtfList: the caller gives the returned catalog back.
FreeHrtfList ==
    /\ pc = "idle"
    /\ list # <<>>
    /\ list' = <<>>
    /\ last' = Record("FreeHrtfList")
    /\ UNCHANGED <<LoadedHrtfs, heap, frees, pc, inp, dec>>
    /\ UNCHANGED <<thr, sync>>

\* A variant of HeadAfterFree that leaves the head of the list in place.
HeadAfterFree_Kept == LoadedHrtfs

\* FreeHrtfs: "LoadedHrtfs = NULL".
HeadAfterFree == NullPtr

\* FreeHrtfs: "while(Hrtf != NULL) { next = Hrtf->next; al_free(Hrtf);
\* Hrtf = next; }" from the old head.
FreeHrtfs ==
    /\ pc = "idle"
    /\ LET c == ChainFrom(LoadedHrtfs)
       IN  frees' = [p \in DOMAIN frees |->
                        frees[p] + Cardinality({i \in 1..Len(c) : c[i] = p})]
    /\ LoadedHrtfs' = HeadAfterFree
    /\ last' = Record("FreeHrtfs")
    /\ UNCHANGED <<heap, list, pc, inp, dec>>
    /\ UNCHANGED <<thr, sync>>

Init == RegistryInit /\ inp = Found(FileNames, RegistryBuffers) /\ dec = Pending

Next ==
    \/ EnumerateHrtf
    \/ AddFileEntry
    \/ AddBuiltInEntry
    \/ EnumerateReturn
    \/ FreeHrtfList
    \/ FreeHrtfs

Spec == Init /\ [][Next]_vars

\* The registry operations when one file is found, whose content is any of
\* the defective files, a file with a bad header or a well-formed file.
InitDefective ==
    RegistryInit /\ inp = Found({FileAX}, {V1Min} \cup DefectiveBuffers \cup BadHeaderBuffers)
                 /\ dec = Pending

SpecDefective == InitDefective /\ [][Next]_vars

----------------------------------------------------------------------------
(* Loads and FreeHrtfs called from several threads.  The registry part of  *)
(* a load (AddFileEntry from the scan of LoadedHrtfs to the store into it) *)
(* is a sequence of steps of the calling thread; with inp.serialized each  *)
(* call holds one mutex from its first step to its last, without it the    *)
(* steps of the threads interleave freely.  Each thread loads one file     *)
(* into an empty catalog and may call FreeHrtfs.                           *)

\* The number of threads.
NumThreads == 3

Threads == 1..NumThreads

\* The file a thread loads: the same for all but the last thread.
ThreadFiles(t) == IF t = NumThreads THEN {FileBX} ELSE {FileAX}

\* The locals of a thread: where it stands, the file name of its load, its
\* entry.hrtf and the data set of the entry it has pushed.
Local(at, filename, hrtf, entry) ==
    [pc |-> at, filename |-> filename, hrtf |-> hrtf, entry |-> entry]

\* Taking the mutex at the first step of a call, holding it at the later
\* ones, and giving it back at the last one.
Acquire(t) == IF inp.serialized THEN sync.mutex = 0 ELSE TRUE
Release == [sync EXCEPT !.mutex = 0]
Acquired(t) == IF inp.serialized THEN [sync EXCEPT !.mutex = t] ELSE sync

\* A variant of LinkNext that leaves hrtf->next null.
LinkNext_Null(p) == heap

\* "hrtf->next = LoadedHrtfs".
LinkNext(p) == [heap EXCEPT ![p].next = LoadedHrtfs]

\* "LoadedHrtfs = hrtf".
StoreHead(p) == p

InitThreads ==
    /\ LoadedHrtfs = NullPtr /\ heap = <<>> /\ frees = <<>> /\ list = <<>>
    /\ pc = "idle" /\ last = Record("init") /\ dec = Pending
    /\ inp \in {[serialized |-> s] : s \in BOOLEAN}
    /\ thr = [t \in Threads |-> Local("start", <<>>, NullPtr, NullPtr)]
    /\ sync = [mutex |-> 0, linked |-> {}]

\* The scan of LoadedHrtfs for the file name: a match is pushed as the
\* entry, else the load goes on to map and decode the file.
ThreadScan(t) ==
    /\ thr[t].pc = "start"
    /\ Acquire(t)
    /\ \E filename \in ThreadFiles(t) :
        IF ScanReadsFreed(ChainFrom(LoadedHrtfs), filename)
        THEN thr' = [thr EXCEPT ![t] = Local("undefined", filename, NullPtr, NullPtr)]
             /\ sync' = Acquired(t)
        ELSE IF FindLoaded(filename) # NullPtr
        THEN thr' = [thr EXCEPT ![t] = Local("done", filename, FindLoaded(filename),
                                             FindLoaded(filename))]
             /\ UNCHANGED sync
        ELSE thr' = [thr EXCEPT ![t] = Local("decode", filename, NullPtr, NullPtr)]
             /\ sync' = Acquired(t)
    /\ UNCHANGED <<LoadedHrtfs, heap, frees, list, pc, last, inp, dec>>

\* The file is mapped and decoded: al_calloc places the data set at the next
\* free address.
ThreadDecode(t) ==
    /\ thr[t].pc = "decode"
    /\ LET d == DispatchFile(V1Min, thr[t].filename, 0)
       IN  /\ heap' = Append(heap, d.hrtf)
           /\ frees' = Append(frees, 0)
           /\ thr' = [thr EXCEPT ![t] = Local("link", thr[t].filename, Len(heap) + 1, NullPtr)]
    /\ UNCHANGED <<LoadedHrtfs, list, pc, last, inp, dec, sync>>

ThreadLink(t) ==
    /\ thr[t].pc = "link"
    /\ heap' = LinkNext(thr[t].hrtf)
    /\ thr' = [thr EXCEPT ![t].pc = "store"]
    /\ UNCHANGED <<LoadedHrtfs, frees, list, pc, last, inp, dec, sync>>

ThreadStore(t) ==
    /\ thr[t].pc = "store"
    /\ LoadedHrtfs' = StoreHead(thr[t].hrtf)
    /\ sync' = [sync EXCEPT !.linked = @ \cup {thr[t].hrtf}]
    /\ thr' = [thr EXCEPT ![t].pc = "push"]
    /\ UNCHANGED <<heap, frees, list, pc, last, inp, dec>>

\* The entry is pushed to the catalog of the thread and the call returns.
ThreadPush(t) ==
    /\ thr[t].pc = "push"
    /\ thr' = [thr EXCEPT ![t] = Local("done", thr[t].filename, thr[t].hrtf, thr[t].hrtf)]
    /\ sync' = Release
    /\ UNCHANGED <<LoadedHrtfs, heap, frees, list, pc, last, inp, dec>>

\* FreeHrtfs called by a thread that is not inside a load.
ThreadFree(t) ==
    /\ thr[t].pc \in {"start", "done"}
    /\ Acquire(t)
    /\ LET c == ChainFrom(LoadedHrtfs)
       IN  frees' = [p \in DOMAIN frees |->
                        frees[p] + Cardinality({i \in 1..Len(c) : c[i] = p})]
    /\ LoadedHrtfs' = HeadAfterFree
    /\ thr' = [thr EXCEPT ![t].pc = "end"]
    /\ UNCHANGED <<heap, list, pc, last, inp, dec, sync>>

NextThreads ==
    \E t \in Threads :
        \/ ThreadScan(t)
        \/ ThreadDecode(t)
        \/ ThreadLink(t)
        \/ ThreadStore(t)
        \/ ThreadPush(t)
        \/ ThreadFree(t)

SpecThreads == InitThreads /\ [][NextThreads]_vars

----------------------------------------------------------------------------
(* The HRIR interpolation.  Angles and the gain are exact multiples of a   *)
(* step, and every float of the C code is the rational number it stands    *)
(* for, held as a numerator over a denominator fixed by the steps:         *)
(*   elevation  ev  stands for  ev * (pi/2) / AngleSteps,                  *)
(*   azimuth    az  stands for  az * (2 pi) / AngleSteps,                  *)
(*   spread     sp  stands for  sp * (2 pi) / AngleSteps,                  *)
(*   gain       g   stands for  g / 100000.                                *)
(* An ALuint is held as the integer of -2^31..2^31-1 congruent to it       *)
(* modulo 2^32.                                                            *)

\* The number of steps of a full turn of azimuth (and of a quarter turn of
\* elevation), and the number of turns the azimuths range over either way.
AngleSteps == 4
MaxTurns == 2

\* 0.0001f of "if(gain > 0.0001f)", in the unit of the gain.
GainThreshold == 10

\* The fractional bits of a delay (hrtf.h).
HRTFDELAY_BITS == 20

\* The float num/den converted to ALuint: the fraction is dropped and a
\* negative value wraps.
fastf2u(num, den) == IF num >= 0 THEN num \div den ELSE -((-num) \div den)

\* floorf(num/den).
floorf(num, den) == num \div den

minu(a, b) == IF a > b THEN b ELSE a

\* 2^32 % n, for 0 < n < 32768.
TwoTo32Mod(n) == ((65536 % n) * (65536 % n)) % n

\* u % n of the C code, u an ALuint and 0 < n < 32768.
UMod(u, n) == IF u >= 0 THEN u % n ELSE (TwoTo32Mod(n) + (u % n)) % n

\* A variant of MirrorAz that uses the index of the left ear.
MirrorAz_Same(azcount, azidx) == azidx

\* "(azcount-azidx) % azcount": the azimuth index of the right ear, in
\* GetLerpedHrtfCoeffs and in BuildBFormatHrtf.
MirrorAz(azcount, azidx) == (azcount - azidx) % azcount

\* evidx[0], evidx[1], and evmu as a numerator over 2*AngleSteps.
CalcEvIndices(evcount, ev) ==
    LET num == (AngleSteps + ev) * (evcount - 1)
        den == 2 * AngleSteps
        evidx0 == fastf2u(num, den)
    IN  [evidx |-> [i \in 0..1 |-> IF i = 0 THEN evidx0 ELSE minu(evidx0 + 1, evcount - 1)],
         evmu |-> num - evidx0 * den]

\* A variant of CalcAzIndices that clamps the second index instead of
\* wrapping it.
CalcAzIndices_Clamped(azcount, az) ==
    LET num == (AngleSteps + az) * azcount
        den == AngleSteps
        azidx0 == UMod(fastf2u(num, den), azcount)
    IN  [azidx |-> [i \in 0..1 |-> IF i = 0 THEN azidx0 ELSE minu(azidx0 + 1, azcount - 1)],
         azmu |-> num - floorf(num, den) * den]

\* A variant of CalcAzIndices that forgets to add F_TAU to the azimuth.
CalcAzIndices_NoOffset(azcount, az) ==
    LET num == az * azcount
        den == AngleSteps
        azidx0 == UMod(fastf2u(num, den), azcount)
    IN  [azidx |-> [i \in 0..1 |-> IF i = 0 THEN azidx0 ELSE (azidx0 + 1) % azcount],
         azmu |-> num - floorf(num, den) * den]

\* azidx[0], azidx[1], and azmu as a numerator over AngleSteps.
CalcAzIndices(azcount, az) ==
    LET num == (AngleSteps + az) * azcount
        den == AngleSteps
        azidx0 == UMod(fastf2u(num, den), azcount)
    IN  [azidx |-> [i \in 0..1 |-> IF i = 0 THEN azidx0 ELSE (azidx0 + 1) % azcount],
         azmu |-> num - floorf(num, den) * den]

\* A coefficient is a pair <<p, d>> standing for p * 32767*sqrt(0.5) + d/BlendDen,
\* BlendDen being the denominator of the blending weights.
PassthruCoeff == <<1, 0>>
ZeroCoeff == <<0, 0>>

\* val1 + (val2 - val1)*mu for mu = munum/AngleSteps, as a numerator over
\* AngleSteps.
lerp(val1, val2, munum) ==
    <<val1[1] * (AngleSteps - munum) + val2[1] * munum,
      val1[2] * (AngleSteps - munum) + val2[2] * munum>>

\* A variant of EnoughGain that lets the threshold itself through.
EnoughGain_Inclusive(gain) == gain >= GainThreshold

\* "if(gain > 0.0001f)".
EnoughGain(gain) == gain > GainThreshold

\* A variant of Blend whose first two weights forget the factor (1 - mu[2]).
Blend_NoElevationFactor(mu) ==
    [j \in 0..3 |->
        CASE j = 0 -> (AngleSteps - mu[0]) * (2 * AngleSteps)
          [] j = 1 -> mu[0] * (2 * AngleSteps)
          [] j = 2 -> (AngleSteps - mu[1]) * mu[2]
          [] j = 3 -> mu[1] * mu[2]]

\* "blend[0] = (1.0f-mu[0]) * (1.0f-mu[2]); ...": the four weights, as
\* numerators over AngleSteps * 2*AngleSteps.
Blend(mu) ==
    [j \in 0..3 |->
        CASE j = 0 -> (AngleSteps - mu[0]) * (2 * AngleSteps - mu[2])
          [] j = 1 -> mu[0] * (2 * AngleSteps - mu[2])
          [] j = 2 -> (AngleSteps - mu[1]) * mu[2]
          [] j = 3 -> mu[1] * mu[2]]

\* A variant of DirFact that forgets the "1.0f -".
DirFact_NotInverted(spread) == spread

\* "dirfact = 1.0f - (spread / F_TAU)", as a numerator over AngleSteps.
DirFact(spread) == AngleSteps - spread

\* The call GetLerpedHrtfCoeffs(Hrtf, elevation, azimuth, spread, gain, coeffs,
\* delays): what it leaves in coeffs and delays, with the cells and factors it
\* used (lidx and ridx before they are scaled by irSize) and the branch of
\* the gain test it took.  mu[0], mu[1] are over AngleSteps, mu[2] over
\* 2*AngleSteps and blend[] over their product BlendDen.  A written
\* coefficient <<p, d>> stands for
\*   (p/AngleSteps * PassthruCoeff + d/(BlendDen*AngleSteps)) / 100000 / 32767.
GetLerpedHrtfCoeffs(Hrtf, elevation, azimuth, spread, gain) ==
    LET dirfact == DirFact(spread)
        ev == CalcEvIndices(Hrtf.evCount, elevation)
        azcount == [i \in 0..1 |-> Hrtf.azCount[ev.evidx[i]]]
        evoffset == [i \in 0..1 |-> Hrtf.evOffset[ev.evidx[i]]]
        az == [i \in 0..1 |-> CalcAzIndices(azcount[i], azimuth)]
        lidx == [j \in 0..3 |-> evoffset[j \div 2] + az[j \div 2].azidx[j % 2]]
        ridx == [j \in 0..3 |->
                    evoffset[j \div 2]
                    + MirrorAz(azcount[j \div 2], az[j \div 2].azidx[j % 2])]
        mu == [i \in 0..2 |-> IF i = 2 THEN ev.evmu ELSE az[i].azmu]
        BlendDen == AngleSteps * (2 * AngleSteps)
        blend == Blend(mu)
        Delay(idx) ==
            LET sum == Hrtf.delays[idx[0] + 1] * blend[0] + Hrtf.delays[idx[1] + 1] * blend[1]
                       + Hrtf.delays[idx[2] + 1] * blend[2] + Hrtf.delays[idx[3] + 1] * blend[3]
            IN  fastf2u(2 * sum * dirfact + BlendDen * AngleSteps, 2 * BlendDen * AngleSteps)
                    * (2 ^ HRTFDELAY_BITS)
        C(idx, i) ==
            LET at(j) == idx[j] * Hrtf.irSize + i + 1
            IN  Hrtf.coeffs[at(0)] * blend[0] + Hrtf.coeffs[at(1)] * blend[1]
                + Hrtf.coeffs[at(2)] * blend[2] + Hrtf.coeffs[at(3)] * blend[3]
        Blended(idx, i) ==
            LET c == lerp(IF i = 0 THEN PassthruCoeff ELSE ZeroCoeff,
                          <<0, C(idx, i)>>, dirfact)
            IN  <<c[1] * gain, c[2] * gain>>
    IN  [delays |-> <<Delay(lidx), Delay(ridx)>>,
         coeffs |-> [i \in 0..(Hrtf.irSize - 1) |->
                        IF EnoughGain(gain) THEN <<Blended(lidx, i), Blended(ridx, i)>>
                        ELSE <<ZeroCoeff, ZeroCoeff>>],
         path |-> IF EnoughGain(gain) THEN "blend" ELSE "zero",
         lidx |-> lidx, ridx |-> ridx, mu |-> mu,
         evidx |-> ev.evidx, azidx |-> [i \in 0..1 |-> az[i].azidx], blend |-> blend]

\* The interpolation harness: a data set produced by the decoder and the
\* arguments of a call are drawn, the call is made, and it is made once more
\* with the azimuth a full turn further.  dec is the sequence of the results.
LerpFiles ==
    {V1File(8, <<1, 3, 5, 3, 1>>, <<>>), V1Example, V0File(32, 8, <<3, 7, 15, 23, 31>>, <<>>)}

LerpInputs ==
    {[Hrtf |-> DispatchFile(f, <<>>, 0).hrtf,
      elevation |-> ev, azimuth |-> az, spread |-> sp, gain |-> g] :
        f \in LerpFiles, ev \in (-AngleSteps)..AngleSteps,
        az \in (-(MaxTurns * AngleSteps))..(MaxTurns * AngleSteps),
        sp \in 0..AngleSteps, g \in {0, 5, GainThreshold, GainThreshold + 1}}

InitLerp == RegistryInit /\ inp \in LerpInputs /\ dec = <<>>

Interpolate ==
    /\ Len(dec) = 0
    /\ dec' = <<GetLerpedHrtfCoeffs(inp.Hrtf, inp.elevation, inp.azimuth,
                                    inp.spread, inp.gain)>>
    /\ UNCHANGED <<LoadedHrtfs, heap, frees, list, pc, last, inp>>
    /\ UNCHANGED <<thr, sync>>

InterpolateTurned ==
    /\ Len(dec) = 1
    /\ dec' = Append(dec, GetLerpedHrtfCoeffs(inp.Hrtf, inp.elevation,
                                              inp.azimuth + AngleSteps,
                                              inp.spread, inp.gain))
    /\ UNCHANGED <<LoadedHrtfs, heap, frees, list, pc, last, inp>>
    /\ UNCHANGED <<thr, sync>>

NextLerp == Interpolate \/ InterpolateTurned

SpecLerp == InitLerp /\ [][NextLerp]_vars

----------------------------------------------------------------------------
(* The B-Format filter builder.  The cube directions are in whole degrees, *)
(* so the index arithmetic is exact.                                       *)

\* The length of a filter of the output (hrtf.h).
HRIR_LENGTH == 128

maxu(a, b) == IF a > b THEN a ELSE b

\* CubePoints[c], in degrees.
CubePoints ==
    [c \in 0..7 |->
        [elevation |-> IF c < 4 THEN 35 ELSE -35,
         azimuth |-> CASE c % 4 = 0 -> -45 [] c % 4 = 1 -> 45
                       [] c % 4 = 2 -> -135 [] c % 4 = 3 -> 135]]

\* CubeMatrix[c][0][i], band 0 being the only one used with NUM_BANDS 1:
\* channel 0 in units of 0.25 and channels 1..3 in units of 0.1443375672.
CubeMatrix ==
    [c \in 0..7 |->
        [i \in 0..3 |->
            CASE i = 0 -> 1
              [] i = 1 -> IF c % 2 = 0 THEN 1 ELSE -1
              [] i = 2 -> IF c < 4 THEN 1 ELSE -1
              [] i = 3 -> IF (c \div 2) % 2 = 0 THEN 1 ELSE -1]]

\* The body of the first loop for cube point c: evidx, azidx, lidx[c] and
\* ridx[c].
CubeIndices(Hrtf, c) ==
    LET evidx == minu(floorf((90 + CubePoints[c].elevation) * (Hrtf.evCount - 1) + 90, 180),
                      Hrtf.evCount - 1)
        azcount == Hrtf.azCount[evidx]
        evoffset == Hrtf.evOffset[evidx]
        azidx == UMod(floorf((360 + CubePoints[c].azimuth) * azcount + 180, 360), azcount)
    IN  [evidx |-> evidx, azidx |-> azidx, azcount |-> azcount, evoffset |-> evoffset,
         lidx |-> evoffset + azidx,
         ridx |-> evoffset + MirrorAz(azcount, azidx)]

\* min_delay after the cube points 0..c-1 have been visited.
RECURSIVE MinDelayUpTo(_, _, _, _)
MinDelayUpTo(Hrtf, lidx, ridx, c) ==
    IF c = 0 THEN HRTF_HISTORY_LENGTH
    ELSE minu(MinDelayUpTo(Hrtf, lidx, ridx, c - 1),
              minu(Hrtf.delays[lidx[c - 1] + 1], Hrtf.delays[ridx[c - 1] + 1]))

\* A variant of MinDelay whose running minimum starts at 0.
RECURSIVE MinDelayFromZeroUpTo(_, _, _, _)
MinDelayFromZeroUpTo(Hrtf, lidx, ridx, c) ==
    IF c = 0 THEN 0
    ELSE minu(MinDelayFromZeroUpTo(Hrtf, lidx, ridx, c - 1),
              minu(Hrtf.delays[lidx[c - 1] + 1], Hrtf.delays[ridx[c - 1] + 1]))

MinDelay_FromZero(Hrtf, lidx, ridx) == MinDelayFromZeroUpTo(Hrtf, lidx, ridx, 8)

\* min_delay when the first loop is over.
MinDelay(Hrtf, lidx, ridx) == MinDelayUpTo(Hrtf, lidx, ridx, 8)

\* max_length after the cube points 0..c-1 have been added.
RECURSIVE MaxLengthUpTo(_, _, _)
MaxLengthUpTo(Hrtf, delay, c) ==
    IF c = 0 THEN 0
    ELSE maxu(maxu(MaxLengthUpTo(Hrtf, delay, c - 1),
                   minu(delay[c - 1][1] + Hrtf.irSize, HRIR_LENGTH)),
              minu(delay[c - 1][2] + Hrtf.irSize, HRIR_LENGTH))

\* The call BuildBFormatHrtf(Hrtf, coeffs, 4): the value returned, what is
\* added to coeffs[i][j][ear] (in the units of CubeMatrix, over 32767), and
\* the indices, the minimum and the delay of each contribution (delay[c][1]
\* for the left ear, delay[c][2] for the right one).
BuildBFormatHrtf(Hrtf) ==
    LET cube == [c \in 0..7 |-> CubeIndices(Hrtf, c)]
        lidx == [c \in 0..7 |-> cube[c].lidx]
        ridx == [c \in 0..7 |-> cube[c].ridx]
        min_delay == MinDelay(Hrtf, lidx, ridx)
        delay == [c \in 0..7 |->
                    <<Hrtf.delays[lidx[c] + 1] - min_delay,
                      Hrtf.delays[ridx[c] + 1] - min_delay>>]
        idx(c, ear) == IF ear = 1 THEN lidx[c] ELSE ridx[c]
        \* temps[0][k] for the contribution of cube point c to an ear.
        temps(c, ear, k) ==
            IF k < Hrtf.irSize THEN Hrtf.coeffs[idx(c, ear) * Hrtf.irSize + k + 1] ELSE 0
        term(c, ear, i, j) ==
            IF j >= delay[c][ear] THEN temps(c, ear, j - delay[c][ear]) * CubeMatrix[c][i]
            ELSE 0
    IN  [max_length |-> MaxLengthUpTo(Hrtf, delay, 8),
         coeffs |-> [i \in 0..3 |-> [j \in 0..(HRIR_LENGTH - 1) |-> [ear \in 1..2 |->
                        term(0, ear, i, j) + term(1, ear, i, j) + term(2, ear, i, j)
                        + term(3, ear, i, j) + term(4, ear, i, j) + term(5, ear, i, j)
                        + term(6, ear, i, j) + term(7, ear, i, j)]]],
         lidx |-> lidx, ridx |-> ridx, cube |-> cube,
         min_delay |-> min_delay, delay |-> delay]

\* A MinPHR01 file with the delay table given.
V1FileDelays(irSize, az, delays) ==
    magicMarker01 \o U32LE(44100) \o <<irSize, Len(az)>> \o az
        \o CoeffBytes(irSize * SeqSum(az)) \o delays

\* Delay tables of n directions: one delay everywhere, the generated pattern,
\* and one delay everywhere but at one direction.
DelayTables(n) ==
    {[k \in 1..n |-> d] : d \in {0, 5, HRTF_HISTORY_LENGTH - 1}}
    \cup {DelayBytes(n, <<>>)}
    \cup {[k \in 1..n |-> IF k = at THEN d ELSE 5] : at \in 1..n, d \in {0, HRTF_HISTORY_LENGTH - 1}}

BFormatFiles ==
    UNION {{V1FileDelays(irSize, az, delays) :
                irSize \in {MIN_IR_SIZE, 72, MAX_IR_SIZE},
                delays \in DelayTables(SeqSum(az))} :
            az \in {Ones(5), <<1, 3, 5, 3, 1>>, <<1, 2, 4, 6, 4, 2, 1>>}}

\* The harness: a data set is decoded from a file, then the builder is run
\* on it.
InitBFormat == RegistryInit /\ inp \in {[ver |-> 1, data |-> Payload(f), mem |-> 0] : f \in BFormatFiles}
                            /\ dec = Pending

DecodeForBFormat ==
    /\ dec = Pending
    /\ dec' = [Hrtf |-> LoadHrtf01(inp.data, Len(inp.data), <<>>, inp.mem).hrtf]
    /\ UNCHANGED <<LoadedHrtfs, heap, frees, list, pc, last, inp>>
    /\ UNCHANGED <<thr, sync>>

BuildBFormat ==
    /\ dec # Pending
    /\ dec.Hrtf # NULL
    /\ "out" \notin DOMAIN dec
    /\ dec' = [Hrtf |-> dec.Hrtf, out |-> BuildBFormatHrtf(dec.Hrtf)]
    /\ UNCHANGED <<LoadedHrtfs, heap, frees, list, pc, last, inp>>
    /\ UNCHANGED <<thr, sync>>

\* The interpolation is then run on the same data set, for a point source
\* above the gain threshold.
InterpolateDecoded ==
    /\ dec # Pending
    /\ "out" \in DOMAIN dec
    /\ "lerp" \notin DOMAIN dec
    /\ \E ev \in {-AngleSteps, 1, AngleSteps}, az \in (-AngleSteps)..AngleSteps :
         dec' = [Hrtf |-> dec.Hrtf, out |-> dec.out,
                 lerp |-> GetLerpedHrtfCoeffs(dec.Hrtf, ev, az, 0, GainThreshold + 1)]
    /\ UNCHANGED <<LoadedHrtfs, heap, frees, list, pc, last, inp, thr, sync>>

NextBFormat == DecodeForBFormat \/ BuildBFormat \/ InterpolateDecoded

SpecBFormat == InitBFormat /\ [][NextBFormat]_vars

----------------------------------------------------------------------------
(* The fields of a payload as the format description lays them out, used   *)
(* to state what a buffer holds independently of the decoders.             *)

FieldIrSize(in) ==
    IF in.ver = 0 THEN Byte(in.data, 6) + Byte(in.data, 7) * 256 ELSE Byte(in.data, 4)

FieldEvCount(in) == IF in.ver = 0 THEN Byte(in.data, 8) ELSE Byte(in.data, 5)

HeaderSize(in) == IF in.ver = 0 THEN 9 ELSE 6

TableSize(in) == IF in.ver = 0 THEN 2 * FieldEvCount(in) ELSE FieldEvCount(in)

\* The stored table: evOffset[] of a v0 payload, azCount[] of a v1 payload.
FieldTable(in) ==
    [i \in 1..FieldEvCount(in) |->
        IF in.ver = 0
        THEN Byte(in.data, 9 + 2 * (i - 1)) + Byte(in.data, 9 + 2 * (i - 1) + 1) * 256
        ELSE Byte(in.data, 6 + (i - 1))]

FieldIrCount(in) ==
    IF in.ver = 0 THEN Byte(in.data, 4) + Byte(in.data, 5) * 256
    ELSE SeqSum(FieldTable(in))

\* The azimuth count of ring i (from 1) that the payload declares.
FieldAzCount(in, i) ==
    IF in.ver = 1 THEN FieldTable(in)[i]
    ELSE IF i < FieldEvCount(in) THEN FieldTable(in)[i + 1] - FieldTable(in)[i]
    ELSE FieldIrCount(in) - FieldTable(in)[i]

FullSize(in) ==
    HeaderSize(in) + TableSize(in)
        + 2 * FieldIrSize(in) * FieldIrCount(in) + FieldIrCount(in)

FieldDelay(in, k) ==
    Byte(in.data, HeaderSize(in) + TableSize(in)
                    + 2 * FieldIrSize(in) * FieldIrCount(in) + k)

\* Everything but irSize and evCount is as the format requires, the buffer
\* is long enough and no allocation fails.
RestValid(in) ==
    /\ in.mem = 0
    /\ Len(in.data) >= HeaderSize(in) + TableSize(in)
    /\ \A i \in 1..FieldEvCount(in) : FieldAzCount(in, i) \in 1..128
    /\ in.ver = 0 /\ FieldEvCount(in) > 0 => FieldTable(in)[1] = 0
    /\ Len(in.data) >= FullSize(in)
    /\ \A k \in 0..(FieldIrCount(in) - 1) : FieldDelay(in, k) <= HRTF_HISTORY_LENGTH - 1

IrSizeInRange(sz) == 8 <= sz /\ sz <= 128 /\ sz % 8 = 0

EvCountInRange(ev) == 5 <= ev /\ ev <= 128

Produced == dec # Pending /\ dec.hrtf # NULL

----------------------------------------------------------------------------
(* Claims about the decoders, checked under SpecDecode.                    *)

\* C1: in every data set a decoder produces, consecutive evOffset entries
\* differ by the ring's azCount and irCount = evOffset[last] + azCount[last].
C1_RoundTrip ==
    Produced =>
        LET h == dec.hrtf IN
        /\ \A i \in 0..(h.evCount - 2) : h.evOffset[i + 1] - h.evOffset[i] = h.azCount[i]
        /\ IrCount(h) = h.evOffset[h.evCount - 1] + h.azCount[h.evCount - 1]

\* C2: in every data set a decoder produces, evOffset[0] = 0, evOffset is
\* strictly increasing and irCount is the sum of azCount over the rings.
C2_OffsetsFromZero ==
    Produced =>
        LET h == dec.hrtf IN
        /\ h.evOffset[0] = 0
        /\ \A i \in 1..(h.evCount - 1) : h.evOffset[i] > h.evOffset[i - 1]
        /\ IrCount(h) = SeqSum([i \in 1..h.evCount |-> h.azCount[i - 1]])

\* C3: with the rest of the buffer valid, a data set is produced exactly when
\* irSize is a multiple of 8 in 8..128 and evCount is in 5..128; a buffer
\* with either out of range is refused with no byte of the table read.
C3_SizeBounds ==
    dec # Pending =>
        LET inRange == IrSizeInRange(FieldIrSize(inp)) /\ EvCountInRange(FieldEvCount(inp))
        IN  /\ RestValid(inp) => ((dec.hrtf # NULL) <=> inRange)
            /\ (Len(inp.data) >= HeaderSize(inp) /\ ~inRange) =>
                    (dec.hrtf = NULL /\ dec.reads <= HeaderSize(inp))

C3_Witness ==
    /\ dec # Pending /\ inp.ver = 1 /\ RestValid(inp)
    /\ FieldIrSize(inp) = 129 /\ FieldEvCount(inp) = 5
    /\ dec.hrtf = NULL /\ dec.reads = 6

\* C4: a decoder never reads at or past datalen; a buffer that is shorter
\* than its header, its table or its coefficient and delay tables yields no
\* data set.
C4_NoReadPastEnd ==
    dec # Pending =>
        /\ dec.reads <= Len(inp.data)
        /\ dec.hrtf # NULL =>
              Len(inp.data) >= HeaderSize(inp) + TableSize(inp)
                  + 2 * dec.hrtf.irSize * IrCount(dec.hrtf) + IrCount(dec.hrtf)
        /\ (\/ Len(inp.data) < HeaderSize(inp)
            \/ Len(inp.data) < HeaderSize(inp) + TableSize(inp)
            \/ Len(inp.data) < FullSize(inp)) => dec.hrtf = NULL

C4_Witness ==
    /\ dec # Pending /\ inp.ver = 0 /\ inp.mem = 0
    /\ Len(inp.data) = FullSize(inp) - 1
    /\ dec.hrtf = NULL /\ dec.reads = HeaderSize(inp) + TableSize(inp)

\* C5: every delay of a produced data set is at most HRTF_HISTORY_LENGTH-1,
\* and a buffer with a larger delay byte yields no data set.
C5_DelaysBounded ==
    dec # Pending =>
        /\ dec.hrtf # NULL =>
              \A k \in 1..IrCount(dec.hrtf) : dec.hrtf.delays[k] <= HRTF_HISTORY_LENGTH - 1
        /\ (/\ Len(inp.data) >= HeaderSize(inp) + TableSize(inp)
            /\ Len(inp.data) >= FullSize(inp)
            /\ \E k \in 0..(FieldIrCount(inp) - 1) :
                    FieldDelay(inp, k) > HRTF_HISTORY_LENGTH - 1) => dec.hrtf = NULL

C5_Witness ==
    /\ dec # Pending /\ inp.mem = 0 /\ inp.ver = 1
    /\ IrSizeInRange(FieldIrSize(inp)) /\ EvCountInRange(FieldEvCount(inp))
    /\ Len(inp.data) >= HeaderSize(inp) + TableSize(inp)
    /\ Len(inp.data) >= FullSize(inp)
    /\ \A i \in 1..FieldEvCount(inp) : FieldAzCount(inp, i) \in 1..128
    /\ Cardinality({k \in 0..(FieldIrCount(inp) - 1) :
                        FieldDelay(inp, k) > HRTF_HISTORY_LENGTH - 1}) = 1
    /\ FieldDelay(inp, FieldIrCount(inp) - 1) = HRTF_HISTORY_LENGTH
    /\ dec.hrtf = NULL /\ dec.reads = FullSize(inp)

----------------------------------------------------------------------------
(* Claims about the registry, checked under Spec.                          *)

IsLoad(r) == r.op \in {"AddFileEntry", "AddBuiltInEntry"}

HasPrefix(bytes, marker) ==
    Len(bytes) >= Len(marker) /\ \A i \in 1..Len(marker) : bytes[i] = marker[i]

\* The bytes of a buffer from offset n on.
Drop(bytes, n) == [i \in 1..(Len(bytes) - n) |-> bytes[i + n]]

\* C6: a load that gets to the format selection runs the v1 decoder exactly
\* when the buffer starts with "MinPHR01" and the v0 decoder exactly when it
\* starts with "MinPHR00", on the bytes after the marker with the length
\* less 8; a shorter buffer or another prefix runs no decoder and gives no
\* data set.  The same holds of AddFileEntry and of AddBuiltInEntry.
C6_FormatSelection ==
    IsLoad(last) =>
        /\ last.decoder # "none" =>
              /\ last.outcome \in {"failed", "loaded"}
              /\ last.data = Drop(last.bytes, 8)
              /\ last.datalen = Len(last.bytes) - 8
        /\ last.outcome \in {"failed", "loaded"} =>
              /\ last.decoder = "v1" <=> HasPrefix(last.bytes, magicMarker01)
              /\ last.decoder = "v0" <=> HasPrefix(last.bytes, magicMarker00)
              /\ last.decoder = "none" => last.outcome = "failed" /\ last.hrtf = NullPtr

C6_Witness ==
    /\ last.op = "AddBuiltInEntry" /\ last.decoder = "v1" /\ last.outcome = "loaded"
    /\ HasPrefix(last.bytes, magicMarker01)

\* The file names of the data sets of the registry list, head first.
LoadedNames == [i \in 1..Len(ChainFrom(LoadedHrtfs)) |-> heap[ChainFrom(LoadedHrtfs)[i]].filename]

NoTwoLoadedAlike ==
    \A i, j \in 1..Len(LoadedNames) : i # j => LoadedNames[i] # LoadedNames[j]

\* A load of a file name that the registry list holds leaves the list as it
\* is, runs no decoder and, when it pushes an entry, pushes that data set; a
\* load of an absent file name leaves the list as it is or puts one new data
\* set of that name, decoded in this load, in front of it.
LoadStep ==
    IsLoad(last') =>
        LET f == last'.filename
            was == FindLoaded(f)
            new == Len(heap) + 1
        IN  IF f \in {LoadedNames[i] : i \in 1..Len(LoadedNames)}
            THEN /\ LoadedHrtfs' = LoadedHrtfs /\ heap' = heap
                 /\ last'.decoder = "none"
                 /\ last'.outcome \in {"duplicate", "reused"}
                 /\ last'.outcome = "duplicate" =>
                        list' = list /\ \E i \in 1..Len(list) : list[i].hrtf = was
                 /\ last'.outcome = "reused" =>
                        /\ last'.hrtf = was /\ heap[was].filename = f
                        /\ Len(list') = Len(list) + 1
                        /\ list'[Len(list')].hrtf = was
            ELSE \/ LoadedHrtfs' = LoadedHrtfs /\ heap' = heap /\ last'.hrtf = NullPtr
                 \/ /\ last'.decoder # "none" /\ last'.outcome = "loaded"
                    /\ LoadedHrtfs' = new /\ Len(heap') = new
                    /\ heap'[new].filename = f /\ heap'[new].next = LoadedHrtfs
                    /\ \A p \in DOMAIN heap : heap'[p] = heap[p]

\* C7: the registry list never holds two data sets of one file name; a load
\* of a name it holds gives back that data set without a decoder run, and a
\* load of an absent name decodes and on success prepends one data set.
C7_NoDuplicateFilenames == []NoTwoLoadedAlike /\ [][LoadStep]_vars

C7_Witness ==
    /\ last.outcome = "reused" /\ last.decoder = "none"
    /\ Len(LoadedNames) = 2 /\ last.hrtf = heap[LoadedHrtfs].next

\* FreeHrtfs calls al_free once on every data set of the list, on no other,
\* and leaves the list empty; every data set a catalog entry refers to is
\* released after it.
FreeStep ==
    last'.op = "FreeHrtfs" =>
        LET inList == {ChainFrom(LoadedHrtfs)[i] : i \in 1..Len(ChainFrom(LoadedHrtfs))}
        IN  /\ \A p \in DOMAIN heap :
                  frees'[p] = IF p \in inList THEN 1 ELSE frees[p]
            /\ LoadedHrtfs' = NullPtr
            /\ \A i \in 1..Len(list') : frees'[list'[i].hrtf] = 1

\* A load after FreeHrtfs of a file name loaded before it does not find the
\* released data set: it ends in a decoder run or with no file.
ReloadStep ==
    (IsLoad(last') /\ \E p \in DOMAIN heap :
            frees[p] = 1 /\ heap[p].filename = last'.filename
                /\ \A q \in DOMAIN heap : heap[q].filename = last'.filename => frees[q] = 1)
        => /\ last'.outcome \in {"loaded", "failed", "no file"}
           /\ last'.outcome = "loaded" => last'.decoder # "none" /\ frees'[last'.hrtf] = 0

\* C8: FreeHrtfs releases every data set of the list exactly once and
\* empties the list; a later load of a released file name decodes again; the
\* references catalog entries hold are dangling after it, and no operation
\* reads a released data set.
C8_FreeHrtfs ==
    /\ [](pc # "undefined" /\ \A p \in DOMAIN frees : frees[p] <= 1)
    /\ [][FreeStep]_vars
    /\ [][ReloadStep]_vars

C8_Witness ==
    /\ last.outcome = "loaded"
    /\ \E p \in DOMAIN heap : frees[p] = 1 /\ heap[p].filename = last.filename
    /\ \E i \in 1..Len(list) : list[i].hrtf = last.hrtf

----------------------------------------------------------------------------
(* Claims about the interpolation (SpecLerp). *)

\* C9: a call of GetLerpedHrtfCoeffs with gain <= 0.0001 writes 0 to both
\* ears of every coefficient index 0..irSize-1, whatever the elevation,
\* azimuth and spread; with gain > 0.0001 the blended path is taken, which
\* for index 0 mixes in the pass-through coefficient in proportion to spread.
C9_GainGate ==
    \A n \in 1..Len(dec) :
        /\ DOMAIN dec[n].coeffs = 0..(inp.Hrtf.irSize - 1)
        /\ inp.gain <= GainThreshold =>
              /\ dec[n].path = "zero"
              /\ \A i \in 0..(inp.Hrtf.irSize - 1) : dec[n].coeffs[i] = <<<<0, 0>>, <<0, 0>>>>
        /\ inp.gain > GainThreshold =>
              /\ dec[n].path = "blend"
              /\ \A ear \in 1..2 : dec[n].coeffs[0][ear][1] = inp.spread * inp.gain

\* A call at the threshold itself, off the horizon and off the grid, has
\* been made.
C9_Witness ==
    /\ Len(dec) >= 1
    /\ inp.gain = GainThreshold
    /\ inp.elevation = 1 /\ inp.azimuth = 1 /\ inp.spread = 1
    /\ dec[1].mu[0] # 0 /\ dec[1].mu[2] # 0
    /\ dec[1].path = "zero"

SameCells(a, b) == a.lidx = b.lidx /\ a.ridx = b.ridx /\ a.mu = b.mu

SameOutput(a, b) == a.coeffs = b.coeffs /\ a.delays = b.delays

\* C10 as stated: for any azimuth, those below -2 pi included, the calls at
\* the azimuth and a full turn further use the same cells and blending
\* factors and write the same coefficients and delays.
C10_PeriodicEverywhere ==
    Len(dec) = 2 => SameCells(dec[1], dec[2]) /\ SameOutput(dec[1], dec[2])

\* C10, amended: for any azimuth of at least -2 pi, the calls at the azimuth
\* and a full turn further use the same cells and blending factors and
\* write the same coefficients and delays.
C10_PeriodicFromMinusTau ==
    (Len(dec) = 2 /\ inp.azimuth >= -AngleSteps) =>
        SameCells(dec[1], dec[2]) /\ SameOutput(dec[1], dec[2])

\* Both calls have been made for a negative azimuth within the last turn
\* below zero, between grid directions of a ring of three, with the blended
\* path taken.
C10_Witness ==
    /\ Len(dec) = 2
    /\ inp.azimuth >= -AngleSteps /\ inp.azimuth < 0
    /\ inp.Hrtf.azCount[1] = 3 /\ inp.elevation = -1
    /\ dec[1].mu[0] # 0 /\ dec[1].mu[2] # 0
    /\ dec[2].path = "blend"
    /\ dec[2].coeffs[1] # <<<<0, 0>>, <<0, 0>>>>

\* The four bilinear weights formed from the factors mu of a call, over
\* AngleSteps * 2*AngleSteps, and the weighted sum of a table over the four
\* cells idx, entry i of each cell of `width' entries.
Weights(mu) ==
    [j \in 0..3 |->
        (IF j % 2 = 0 THEN AngleSteps - mu[j \div 2] ELSE mu[j \div 2])
        * (IF j < 2 THEN 2 * AngleSteps - mu[2] ELSE mu[2])]

Bilinear(table, idx, width, i, mu) ==
    table[idx[0] * width + i + 1] * Weights(mu)[0] + table[idx[1] * width + i + 1] * Weights(mu)[1]
    + table[idx[2] * width + i + 1] * Weights(mu)[2] + table[idx[3] * width + i + 1] * Weights(mu)[3]

\* Half rounded up, of num/den >= 0.
RoundHalfUp(num, den) == (2 * num + den) \div (2 * den)

\* C11: with the gain above the gate, at spread = 2 pi both ears get
\* PassthruCoeff * gain / 32767 at index 0 and 0 at every index >= 1, and both
\* delays are 0, whatever the direction; at spread = 0 every coefficient is
\* the bilinear blend of the four stored samples times gain / 32767 with no
\* part of PassthruCoeff, and each delay is the blended delay, rounded, shifted
\* left by HRTFDELAY_BITS.
C11_SpreadLimits ==
    \A n \in 1..Len(dec) :
        LET out == dec[n]
            H == inp.Hrtf
            den == AngleSteps * (2 * AngleSteps)
            idx(ear) == IF ear = 1 THEN out.lidx ELSE out.ridx
        IN  inp.gain > GainThreshold =>
              /\ inp.spread = AngleSteps =>
                    /\ out.delays = <<0, 0>>
                    /\ \A ear \in 1..2 :
                          /\ out.coeffs[0][ear] = <<AngleSteps * inp.gain, 0>>
                          /\ \A i \in 1..(H.irSize - 1) : out.coeffs[i][ear] = <<0, 0>>
              /\ inp.spread = 0 =>
                    \A ear \in 1..2 :
                      /\ out.delays[ear] =
                            RoundHalfUp(Bilinear(H.delays, idx(ear), 1, 0, out.mu), den)
                                * (2 ^ HRTFDELAY_BITS)
                      /\ \A i \in 0..(H.irSize - 1) :
                            out.coeffs[i][ear] =
                                <<0, Bilinear(H.coeffs, idx(ear), H.irSize, i, out.mu)
                                        * AngleSteps * inp.gain>>

\* A fully spread call above the gate has been made for a direction between
\* grid directions whose cells have delays above 0.
C11_Witness ==
    /\ Len(dec) >= 1
    /\ inp.gain > GainThreshold /\ inp.spread = AngleSteps
    /\ dec[1].mu[0] # 0 /\ dec[1].mu[2] # 0
    /\ Bilinear(inp.Hrtf.delays, dec[1].lidx, 1, 0, dec[1].mu) > 0
    /\ dec[1].delays = <<0, 0>>

----------------------------------------------------------------------------
(* Claims about the B-Format filter builder (SpecBFormat). *)

\* The delays stored for the 16 contributions of a run of the builder.
StoredDelays(H, out) ==
    {H.delays[out.lidx[c] + 1] : c \in 0..7} \cup {H.delays[out.ridx[c] + 1] : c \in 0..7}

\* C12: each of the 16 contributions is shifted by its stored delay less the
\* least of the 16 stored delays, so every shift is >= 0 and one is 0; the
\* value returned is the largest min(shift + irSize, HRIR_LENGTH); when the
\* 16 delays are equal every shift is 0 and irSize is returned; and always
\* irSize <= the value returned <= HRIR_LENGTH.
C12_BFormatLength ==
    (dec # Pending /\ "out" \in DOMAIN dec) =>
        LET H == dec.Hrtf
            out == dec.out
            least == CHOOSE d \in StoredDelays(H, out) : \A e \in StoredDelays(H, out) : d <= e
            stored(c, ear) == H.delays[(IF ear = 1 THEN out.lidx[c] ELSE out.ridx[c]) + 1]
            ends == {IF out.delay[c][ear] + H.irSize < HRIR_LENGTH
                     THEN out.delay[c][ear] + H.irSize ELSE HRIR_LENGTH :
                        c \in 0..7, ear \in 1..2}
        IN  /\ \A c \in 0..7, ear \in 1..2 :
                 out.delay[c][ear] = stored(c, ear) - least /\ out.delay[c][ear] >= 0
            /\ \E c \in 0..7, ear \in 1..2 : out.delay[c][ear] = 0
            /\ out.max_length \in ends /\ \A e \in ends : e <= out.max_length
            /\ Cardinality(StoredDelays(H, out)) = 1 =>
                 /\ \A c \in 0..7, ear \in 1..2 : out.delay[c][ear] = 0
                 /\ out.max_length = H.irSize
            /\ H.irSize <= out.max_length /\ out.max_length <= HRIR_LENGTH

\* The builder has run on a data set whose 16 delays differ, with a shift
\* that makes a contribution end past HRIR_LENGTH.
C12_Witness ==
    /\ dec # Pending /\ "out" \in DOMAIN dec
    /\ Cardinality(StoredDelays(dec.Hrtf, dec.out)) > 1
    /\ dec.Hrtf.irSize = 72
    /\ dec.out.min_delay = 5
    /\ dec.out.max_length = HRIR_LENGTH

----------------------------------------------------------------------------
(* Claims about loads from several threads (SpecThreads). *)

\* The data sets that were stored into LoadedHrtfs, have not been released
\* and are not on the list.
Lost ==
    {p \in sync.linked : frees[p] = 0 /\ \A i \in 1..Len(ChainFrom(LoadedHrtfs)) :
                                            ChainFrom(LoadedHrtfs)[i] # p}

\* C13: when every load and every FreeHrtfs runs under one mutex, the list
\* never holds two data sets of one file name and no data set stored into
\* the list is lost from it.  Without the mutex both happen: two threads pass
\* the scan for one file name and both data sets end on the list, and a
\* store of the head overwrites another thread's store.
C13_SerializedSafe == inp.serialized => NoTwoLoadedAlike /\ Lost = {}

\* Without the mutex: the list holds two data sets of one file name, and a
\* third data set that was stored into the list is no longer on it.
C13_Witness ==
    /\ ~inp.serialized
    /\ ~NoTwoLoadedAlike
    /\ Lost # {}
    /\ \A p \in DOMAIN frees : frees[p] = 0

----------------------------------------------------------------------------
(* Further claims about the interpolation (SpecLerp). *)

\* The azimuth of call n of the harness.
CallAzimuth(n) == inp.azimuth + (n - 1) * AngleSteps

\* C14: for an elevation in [-pi/2, pi/2] CalcEvIndices returns floor(x) and
\* min(floor(x) + 1, evCount - 1), both in 0..evCount-1 and both evCount-1 at
\* the top pole; for any azimuth CalcAzIndices returns idx0 and (idx0 + 1)
\* mod azCount, both in 0..azCount-1; the blending factors are in [0, 1); and
\* each of lidx[0..3] and ridx[0..3] is below irCount.
C14_IndexBounds ==
    \A n \in 1..Len(dec) :
        LET H == inp.Hrtf
            out == dec[n]
            x == (AngleSteps + inp.elevation) * (H.evCount - 1)
            floor_x == CHOOSE k \in 0..(H.evCount - 1) :
                          k * 2 * AngleSteps <= x /\ x < (k + 1) * 2 * AngleSteps
        IN  /\ out.evidx[0] = floor_x
            /\ out.evidx[1] = (IF floor_x + 1 < H.evCount - 1 THEN floor_x + 1 ELSE H.evCount - 1)
            /\ \A i \in 0..1 : out.evidx[i] \in 0..(H.evCount - 1)
            /\ inp.elevation = AngleSteps => \A i \in 0..1 : out.evidx[i] = H.evCount - 1
            /\ \A i \in 0..1 :
                 LET azcount == H.azCount[out.evidx[i]] IN
                 /\ out.azidx[i][0] \in 0..(azcount - 1)
                 /\ out.azidx[i][1] \in 0..(azcount - 1)
                 /\ out.azidx[i][1] = (out.azidx[i][0] + 1) % azcount
                 /\ out.mu[i] \in 0..(AngleSteps - 1)
            /\ out.mu[2] \in 0..(2 * AngleSteps - 1)
            /\ \A j \in 0..3 : out.lidx[j] \in 0..(IrCount(H) - 1)
                                /\ out.ridx[j] \in 0..(IrCount(H) - 1)

\* A call at the top pole has been made for an azimuth below -2 pi whose
\* first cell is the last one of the data set and whose second cell wraps to
\* the start of the ring.
C14_Witness ==
    /\ Len(dec) = 2
    /\ inp.elevation = AngleSteps
    /\ inp.azimuth < -AngleSteps
    /\ inp.Hrtf.azCount[inp.Hrtf.evCount - 1] > 1
    /\ dec[1].azidx[0][0] = inp.Hrtf.azCount[inp.Hrtf.evCount - 1] - 1
    /\ dec[1].azidx[0][1] = 0
    /\ dec[1].lidx[0] = IrCount(inp.Hrtf) - 1

----------------------------------------------------------------------------
(* Claims about failed loads (SpecDefective). *)

\* C15: a load that finds a defective file (irSize, evCount or azCount out of
\* range, offsets that do not increase, irCount not above the last offset,
\* a cut file, a delay out of range, a bad or short header), or in which an
\* allocation fails, produces no data set; it leaves LoadedHrtfs and the data
\* sets as they were, pushes no catalog entry, and the enumeration goes on;
\* the file name is then neither in the catalog nor in LoadedHrtfs, so a
\* later load of it maps and decodes the file again.
FailedLoadStep ==
    IsLoad(last') =>
        /\ last'.bytes \in DefectiveBuffers \cup BadHeaderBuffers => last'.outcome = "failed"
        /\ last'.outcome = "failed" =>
             /\ last'.hrtf = NullPtr
             /\ LoadedHrtfs' = LoadedHrtfs /\ heap' = heap /\ frees' = frees
             /\ list' = list
             /\ pc' \in {"files", "res48", "tail"}
             /\ ~InCatalog(last'.filename)
             /\ FindLoaded(last'.filename) = NullPtr

C15_FailedLoad == [][FailedLoadStep]_vars

\* The load of a file whose offsets do not increase has failed in the v0
\* decoder, with a data set on LoadedHrtfs and an entry in the catalog.
C15_Witness ==
    /\ IsLoad(last) /\ last.outcome = "failed"
    /\ last.bytes = V0File(5, 8, <<0, 1, 1, 2, 3>>, <<>>)
    /\ last.decoder = "v0"
    /\ LoadedHrtfs # NullPtr /\ list # <<>>

----------------------------------------------------------------------------
(* A claim about both the interpolation and the B-Format builder           *)
(* (SpecBFormat).                                                          *)

\* What the claim says of one direction: the left index is evOffset + a, the
\* right one is evOffset + ((n - a) mod n), within the ring, equal to the
\* left one for a = 0, and mirrored back to a.
Mirrored(evoffset, n, a, l, r) ==
    /\ l = evoffset + a
    /\ r = evoffset + ((n - a) % n)
    /\ r \in evoffset..(evoffset + n - 1)
    /\ a = 0 => r = l
    /\ (n - (r - evoffset)) % n = a

\* C16: in GetLerpedHrtfCoeffs and in BuildBFormatHrtf the index of the right
\* ear for azimuth index a in a ring of n directions starting at evOffset is
\* evOffset + ((n - a) mod n): it lies in the ring, maps a = 0 to itself, and
\* mirrored once more gives a; the index of the left ear is evOffset + a.
C16_MirrorIndex ==
    /\ (dec # Pending /\ "out" \in DOMAIN dec) =>
         \A c \in 0..7 :
            LET q == dec.out.cube[c] IN
            /\ q.azcount = dec.Hrtf.azCount[q.evidx]
            /\ q.evoffset = dec.Hrtf.evOffset[q.evidx]
            /\ Mirrored(q.evoffset, q.azcount, q.azidx, dec.out.lidx[c], dec.out.ridx[c])
    /\ (dec # Pending /\ "lerp" \in DOMAIN dec) =>
         \A i \in 0..1, k \in 0..1 :
            Mirrored(dec.Hrtf.evOffset[dec.lerp.evidx[i]], dec.Hrtf.azCount[dec.lerp.evidx[i]],
                     dec.lerp.azidx[i][k], dec.lerp.lidx[2 * i + k], dec.lerp.ridx[2 * i + k])

\* Both have run on a data set of seven rings: the builder has mirrored a
\* cube direction of a ring of four to another index, and the interpolation
\* has mirrored its cells of a ring of six to other indices.
C16_Witness ==
    /\ dec # Pending /\ "lerp" \in DOMAIN dec
    /\ dec.Hrtf.evCount = 7
    /\ \E c \in 0..7 : dec.out.cube[c].azcount = 4 /\ dec.out.lidx[c] # dec.out.ridx[c]
    /\ dec.Hrtf.azCount[dec.lerp.evidx[0]] = 6 /\ dec.lerp.azidx[0][0] > 0
    /\ dec.lerp.lidx[0] # dec.lerp.ridx[0] /\ dec.lerp.lidx[1] # dec.lerp.ridx[1]

\* The largest of the delays stored for the four cells idx.
LargestCellDelay(H, idx) ==
    CHOOSE d \in {H.delays[idx[j] + 1] : j \in 0..3} :
        \A j \in 0..3 : H.delays[idx[j] + 1] <= d

\* C17: for every decoded data set, elevation in [-pi/2, pi/2], azimuth and
\* spread in [0, 2 pi], the four blending weights are in [0, 1] and add up to
\* 1, and the delay of each ear is a whole number of samples shifted left by
\* HRTFDELAY_BITS that is at most the largest delay of its four cells, hence
\* at most HRTF_HISTORY_LENGTH - 1.
C17_DelayBound ==
    \A n \in 1..Len(dec) :
        LET out == dec[n]
            den == AngleSteps * (2 * AngleSteps)
            idx(ear) == IF ear = 1 THEN out.lidx ELSE out.ridx
        IN  /\ \A j \in 0..3 : out.blend[j] \in 0..den
            /\ out.blend[0] + out.blend[1] + out.blend[2] + out.blend[3] = den
            /\ \A ear \in 1..2 :
                 /\ out.delays[ear] % (2 ^ HRTFDELAY_BITS) = 0
                 /\ out.delays[ear] \div (2 ^ HRTFDELAY_BITS) <= LargestCellDelay(inp.Hrtf, idx(ear))
                 /\ out.delays[ear] \div (2 ^ HRTFDELAY_BITS) <= HRTF_HISTORY_LENGTH - 1

\* A call between grid directions has been made for a point source, whose
\* four weights are all above 0, whose cells differ in delay and whose left
\* delay is above 0 and below that of its largest cell.
C17_Witness ==
    /\ Len(dec) >= 1
    /\ \A j \in 0..3 : dec[1].blend[j] > 0
    /\ inp.spread = 0
    /\ Cardinality({inp.Hrtf.delays[dec[1].lidx[j] + 1] : j \in 0..3}) > 1
    /\ dec[1].delays[1] > 0
    /\ dec[1].delays[1] \div (2 ^ HRTFDELAY_BITS) < LargestCellDelay(inp.Hrtf, dec[1].lidx)

----------------------------------------------------------------------------
(* A claim about the catalog (Spec). *)

\* The k-th name tried for a base name: the base itself, then the base with
\* " #2", " #3", ...
Suffixed(base, k) == IF k = 1 THEN base ELSE base \o <<" ", "#">> \o Decimal(k)

\* C18: while EnumerateHrtf adds entries to its catalog, every entry refers to
\* a data set that is on LoadedHrtfs, no two entries refer to data sets of one
\* file name, the names of the entries differ from one another, and the name
\* of an entry is its base name when no earlier entry has it and else the
\* base name with " #k" for the least k >= 2 that no earlier entry has; such
\* a k is found among the first Len(list) + 1 tries.
C18_CatalogNames ==
    /\ \A i, j \in 1..Len(list) : i # j => list[i].name # list[j].name
    /\ pc \in {"files", "res48", "tail"} =>
         /\ \A i \in 1..Len(list) :
              /\ list[i].hrtf # NullPtr
              /\ \E n \in 1..Len(ChainFrom(LoadedHrtfs)) : ChainFrom(LoadedHrtfs)[n] = list[i].hrtf
              /\ frees[list[i].hrtf] = 0
         /\ \A i, j \in 1..Len(list) :
              i # j => heap[list[i].hrtf].filename # heap[list[j].hrtf].filename
         /\ \A i \in 1..Len(list) :
              LET base == BaseName(heap[list[i].hrtf].filename)
                  earlier == {list[j].name : j \in 1..(i - 1)}
              IN  \E k \in 1..i :
                    /\ list[i].name = Suffixed(base, k)
                    /\ \A m \in 1..(k - 1) : Suffixed(base, m) \in earlier

\* Two files of one base name are in the catalog, the second as "x #2".
C18_Witness ==
    /\ pc = "files"
    /\ Len(list) = 2
    /\ list[1].name = <<"x">>
    /\ list[2].name = <<"x", " ", "#", "2">>
    /\ heap[list[1].hrtf].filename # heap[list[2].hrtf].filename

====
